---- MODULE Spec2Model ----
(***************************************************************************)
(* A model of RESTStore, the session-aware request client of StateMgmt:    *)
(* the refresh coordinator (refresh), the session watcher (the interval    *)
(* started by the constructor), the request client (fetch) and the         *)
(* freshness gate of the upload client (upload), over the persisted clock  *)
(* kept in localStorage under 'auth.lastRefreshed'.                        *)
(*                                                                         *)
(* JavaScript runs one macrotask at a time, so each action below is one    *)
(* macrotask together with the microtasks it triggers: a call runs up to   *)
(* its first suspension on the network, and the arrival of a response runs *)
(* every continuation that becomes ready because of it.                    *)
(***************************************************************************)
EXTENDS Integers, FiniteSets, Sequences, TLC

\* ---------------------------------------------------------------- bounds
NumProcs == 2          \* concurrent callers of the client
MaxTicks == 2          \* watcher ticks within the horizon
MaxFine  == 1          \* 1 ms steps modelled after construction

\* ------------------------------------------------------- program constants
REFRESH_TIMEOUT == 900000 - 3
ACCESS_TIMEOUT  == 60000 - 3
WATCH_INTERVAL  == 5000

\* Date.now() at construction; any epoch time far above both windows.
T0 == 1000000

Procs == 1..NumProcs

Null == "null"

\* localStorage: the item is absent, or holds the timestamp t
Absent  == << >>
Item(t) == << t >>

\* Ages of the clock found in localStorage at construction: one
\* millisecond short of the access window, and such that the first watcher
\* tick falls exactly on the session ceiling and the second one past it.
Ages == { ACCESS_TIMEOUT - 1, REFRESH_TIMEOUT - WATCH_INTERVAL }

\* ------------------------------------------------------ responses, bodies
Statuses == { 200, 401, 504 }

\* response.ok
Ok(s) == s >= 200 /\ s <= 299

\* Response texts the server may send.
TextBoth  == "{\"error_description\":\"X\",\"error\":\"Y\"}"
TextErr   == "{\"error\":\"Y\"}"
TextEmpty == "{ }"
TextBad   == "<html>"
Texts == { TextBoth, TextErr, TextEmpty, TextBad }

\* JSON.parse / response.json(): does the text parse
Parses(t) == t # TextBad

\* A parsed body; a field that is absent is the empty string, which the
\* truthiness tests of responseErrorMsg cannot tell from an absent one.
Body(d, e) == [error_description |-> d, error |-> e]
NoBody == [none |-> TRUE]

JSONParse(t) ==
  CASE t = TextBoth  -> Body("X", "Y")
    [] t = TextErr   -> Body("", "Y")
    [] t = TextEmpty -> Body("", "")
    [] OTHER         -> NoBody

JSONStringify(b) ==
  IF b.error_description # "" /\ b.error # ""
  THEN "{\"error_description\":\"" \o b.error_description
         \o "\",\"error\":\"" \o b.error \o "\"}"
  ELSE IF b.error_description # ""
  THEN "{\"error_description\":\"" \o b.error_description \o "\"}"
  ELSE IF b.error # ""
  THEN "{\"error\":\"" \o b.error \o "\"}"
  ELSE "{}"

\* Mutant: body.error is looked at before body.error_description.
responseErrorMsgErrorFirst(s, body) ==
  IF body.error # "" THEN body.error
  ELSE IF body.error_description # "" THEN body.error_description
  ELSE ToString(s) \o " - " \o JSONStringify(body)

responseErrorMsg(s, body) ==
  IF body.error_description # "" THEN body.error_description
  ELSE IF body.error # "" THEN body.error
  ELSE ToString(s) \o " - " \o JSONStringify(body)

\* An Error object with the properties the code attaches (0: no status).
Err(m, s, b) == [message |-> m, status |-> s, body |-> b]
NoErr == [none |-> TRUE]

\* new Error(this.error) with status and body, as fetch and refresh build it
HttpError(s, body) == Err(responseErrorMsg(s, body), s, body)

\* the 504 branch of fetch
GatewayError(t) == Err(t, 0, Body("", t))

\* the rejection of response.json() on an unparsable body
SyntaxErr == Err("SyntaxError", 0, NoBody)

\* ------------------------------------------------------------------ state
VARIABLES
  now,            \* Date.now()
  nextTick,       \* due time of the watcher's next tick
  lastRefreshed,  \* localStorage 'auth.lastRefreshed': Absent or Item(t)
  expired,        \* this.expired
  status,         \* this.status
  error,          \* this.error
  refreshPromise, \* this.refreshPromise: Null or "promise"
  refreshExec,    \* the executor of the refresh promise
  refreshResp,    \* status of the last refresh response that was not 200
  refreshText,    \* body text of that response, until it has been read
  refreshCalls,   \* history: calls made to /api/auth/refresh
  loginAt,        \* history: time at which the login wrote the clock
  proc            \* the callers

\* The state of one client, which Spec is about.
clientVars == << now, nextTick, lastRefreshed, expired, status, error,
                 refreshPromise, refreshExec, refreshResp, refreshText,
                 refreshCalls, loginAt, proc >>

\* All of the one client of Spec but the time and the clock.
clientRest == << nextTick, expired, status, error, refreshPromise,
                 refreshExec, refreshResp, refreshText, refreshCalls,
                 loginAt, proc >>

\* The watchers of a process in which clients are constructed one after
\* the other (WatchSpec).
VARIABLES
  sessionWatchId, \* the module-level sessionWatchId: 0 (undefined) or an id
  timers,         \* the intervals that are set: [id, due], the n-th
                  \* setInterval returning n and ticking for the n-th client
  clients         \* this.expired of each client constructed, in order

watchVars == << sessionWatchId, timers, clients >>

\* The tabs of one origin, each with a client of its own, which share the
\* clock in localStorage and nothing else (TabSpec).
VARIABLES
  tabs            \* per tab: where its refresh() stands, and its history

tabVars == << tabs >>

\* The fields of the client that upload() writes (UploadSpec).
VARIABLES
  progress,       \* this.progress
  uploadError     \* this.uploadError

uploadVars == << progress, uploadError >>

\* The AuthStore constructed over the client (AuthSpec).
VARIABLES
  isLoggedIn,     \* AuthStore.isLoggedIn
  isLoggedOut,    \* AuthStore.isLoggedOut
  deps,           \* the observables the autorun read when it last ran,
                  \* with the values they had
  handlers        \* per call: the method of AuthStore that made it, whether
                  \* its then() or catch() has run, and the clock, the flag
                  \* and the number of refresh calls it found (history)

authVars == << isLoggedIn, isLoggedOut, deps, handlers >>

\* What lies outside the one client of Spec; each of the specifications
\* after Spec drives its own part of it.
outside == << watchVars, tabVars, uploadVars, authVars >>

vars == << clientVars, outside >>

\* A caller: the operation it runs (op), where that operation stands (pc),
\* its options, how its call of refresh() ended (gate: "none" when it made
\* no such call), whether its own network request was issued, the status of
\* the response being read, the bytes sent and to send as the last
\* progress event of an upload told them, and the promise it was handed
\* (result, with the value it resolved with or the reason err it was
\* rejected with).
Idle == [ op |-> "none", pc |-> "idle",
          skipRefresh |-> FALSE, recordActivity |-> TRUE, skip401 |-> FALSE,
          gate |-> "none", issued |-> FALSE,
          respStatus |-> 0, respText |-> "", loaded |-> 0, total |-> 0,
          result |-> "pending", value |-> NoBody, err |-> NoErr ]

\* Mutant: an absent clock reads as the present time.
getLastRefreshAbsentIsNow ==
  IF lastRefreshed = Absent THEN now ELSE lastRefreshed[1]

\* getLastRefresh: Number(localStorage.getItem(..)), Number(null) = 0
getLastRefresh == IF lastRefreshed = Absent THEN 0 ELSE lastRefreshed[1]

\* No client constructed yet: "let sessionWatchId;"
WatchInit ==
  /\ sessionWatchId = 0
  /\ timers = {}
  /\ clients = << >>

NumTabs == 2
Tabs == 1..NumTabs

\* A tab whose client has no refresh in flight. pc: "idle", "stale" (the
\* freshness test has failed and the clock is about to be written),
\* "awaitFetch" (the refresh call is out), "hung" (the executor threw).
\* History: the time of its last freshness test (readAt) and what came of
\* it (last: "none", "fresh", "start"); the clock read by the test that
\* led to its last refresh call (seen), the time at which that call went
\* out (calledAt), and the number of its refresh calls.
TabIdle == [ pc |-> "idle", readAt |-> 0, last |-> "none",
             seen |-> Absent, calledAt |-> 0, calls |-> 0 ]

TabInit == tabs = [b \in Tabs |-> TabIdle]

\* "progress = 0.0", "uploadError = ''"
UploadInit ==
  /\ progress = 0
  /\ uploadError = ""

\* The calls that the AuthStore can make within the horizon.
MaxAuthCalls == 3
AuthProcs == 1..MaxAuthCalls

NoHandler == [ who |-> "none", ran |-> "no", clock0 |-> Absent,
               expired0 |-> FALSE, calls0 |-> 0 ]

\* What the autorun reads when it runs: isLoggedIn; expired if isLoggedIn
\* is true; status unless it went for logout().
Deps(li, ex, st) ==
  [ isLoggedIn |-> li,
    readExpired |-> li, expired |-> IF li THEN ex ELSE FALSE,
    readStatus |-> ~(li /\ ex), status |-> IF li /\ ex THEN 0 ELSE st ]

\* new AuthStore(restStore, configStore) on a client just constructed: the
\* autorun has run once and found nothing to do.
AuthInit ==
  /\ isLoggedIn = FALSE
  /\ isLoggedOut = FALSE
  /\ deps = Deps(FALSE, FALSE, 200)
  /\ handlers = [p \in AuthProcs |-> NoHandler]

OutsideInit == WatchInit /\ TabInit /\ UploadInit /\ AuthInit

Init ==
  /\ now = T0
  /\ nextTick = T0 + WATCH_INTERVAL
  /\ lastRefreshed \in { Absent } \cup { Item(T0 - a) : a \in Ages }
  /\ expired = FALSE
  /\ status = 200
  /\ error = ""
  /\ refreshPromise = Null
  /\ refreshExec = "none"
  /\ refreshResp = 0
  /\ refreshText = ""
  /\ refreshCalls = 0
  /\ loginAt = lastRefreshed
  /\ proc = [p \in Procs |-> Idle]
  /\ OutsideInit

\* ------------------------------------------------------------------- time
MaxNow == T0 + MaxTicks * WATCH_INTERVAL

\* Time passes, by a millisecond or up to the watcher's next tick, which is
\* taken when it is due.
Advance ==
  /\ now < nextTick
  /\ \/ /\ now - T0 < MaxFine
        /\ now' = now + 1
     \/ /\ nextTick <= MaxNow
        /\ now' = nextTick
  /\ UNCHANGED << nextTick, lastRefreshed, expired, status, error,
                  refreshPromise, refreshExec, refreshResp, refreshText,
                  refreshCalls, loginAt, proc >>
  /\ UNCHANGED outside

\* Mutant: the ceiling counts as passed when it is reached.
CeilingReached == getLastRefresh + REFRESH_TIMEOUT <= now

\* Mutant: the ceiling is counted from the login, whatever was refreshed.
CeilingFromLogin ==
  (IF loginAt = Absent THEN 0 ELSE loginAt[1]) + REFRESH_TIMEOUT < now

\* the comparison of the session watcher
CeilingPassed == getLastRefresh + REFRESH_TIMEOUT < now

\* The callback of setInterval in the constructor.
WatcherTick ==
  /\ now = nextTick
  /\ nextTick <= MaxNow
  /\ nextTick' = nextTick + WATCH_INTERVAL
  /\ expired' = IF CeilingPassed THEN TRUE ELSE expired
  /\ UNCHANGED << now, lastRefreshed, status, error, refreshPromise,
                  refreshExec, refreshResp, refreshText, refreshCalls,
                  loginAt, proc >>
  /\ UNCHANGED outside

\* ---------------------------------------------------- refresh coordinator
\* Mutant: the token still counts as fresh when the window has just closed.
FreshLate == getLastRefresh + ACCESS_TIMEOUT >= now

\* "The current token is still fresh"
Fresh == getLastRefresh + ACCESS_TIMEOUT > now

\* What a call of refresh() does before it returns: hand out the promise
\* in flight, return at once, or start an attempt.
RefreshKind ==
  IF refreshPromise # Null THEN "join"
  ELSE IF Fresh THEN "fresh"
  ELSE "start"

\* updateLastRefresh, then the executor up to its await of window.fetch
StartAttempt ==
  /\ lastRefreshed' = Item(now)
  /\ refreshPromise' = "promise"
  /\ refreshExec' = "awaitFetch"
  /\ refreshCalls' = refreshCalls + 1
  /\ UNCHANGED << refreshResp, refreshText >>

NoAttempt ==
  UNCHANGED << lastRefreshed, refreshPromise, refreshExec, refreshCalls,
               refreshResp, refreshText >>

\* Mutant: the clock is written before the freshness test.
RefreshSyncWriteFirst ==
  IF RefreshKind = "start" THEN StartAttempt
  ELSE /\ lastRefreshed' = Item(now)
       /\ UNCHANGED << refreshPromise, refreshExec, refreshCalls, refreshResp,
                       refreshText >>

\* The synchronous part of refresh().
RefreshSync == IF RefreshKind = "start" THEN StartAttempt ELSE NoAttempt

\* A direct call of refresh().
CallRefresh(p) ==
  /\ proc[p].pc = "idle"
  /\ RefreshSync
  /\ proc' = [proc EXCEPT ![p] =
        IF RefreshKind = "fresh"
        THEN [Idle EXCEPT !.op = "refresh", !.pc = "done",
                          !.gate = "resolved", !.result = "resolved"]
        ELSE [Idle EXCEPT !.op = "refresh", !.pc = "awaitRefresh",
                          !.gate = "pending"]]
  /\ UNCHANGED << now, nextTick, expired, status, error, loginAt >>
  /\ UNCHANGED outside

\* ------------------------------------------------------------ fetch, upload
\* Mutant: recordActivity is not looked at.
GatedIgnoringActivity(skipRefresh, recordActivity) == ~skipRefresh

\* "if (!options.skipRefresh && recordActivity) await this.refresh()"
Gated(skipRefresh, recordActivity) == ~skipRefresh /\ recordActivity

\* The pc of a call once its own request is out.
Sent(op) == IF op = "upload" THEN "xhr" ELSE "request"

\* fetch() and upload() up to their first suspension.
Call(p, op, sr, ra, s401) ==
  LET c == [Idle EXCEPT !.op = op, !.skipRefresh = sr,
                        !.recordActivity = ra, !.skip401 = s401]
  IN IF Gated(sr, ra)
     THEN /\ RefreshSync
          /\ proc' = [proc EXCEPT ![p] =
                IF RefreshKind = "fresh"
                THEN [c EXCEPT !.pc = Sent(op), !.gate = "resolved",
                               !.issued = TRUE]
                ELSE [c EXCEPT !.pc = "awaitRefresh", !.gate = "pending"]]
     ELSE /\ NoAttempt
          /\ proc' = [proc EXCEPT ![p] =
                [c EXCEPT !.pc = Sent(op), !.issued = TRUE]]

CallFetch(p) ==
  /\ proc[p].pc = "idle"
  /\ \E sr \in BOOLEAN, ra \in BOOLEAN, s401 \in BOOLEAN :
       Call(p, "fetch", sr, ra, s401)
  /\ UNCHANGED << now, nextTick, expired, status, error, loginAt >>
  /\ UNCHANGED outside

CallUpload(p) ==
  /\ proc[p].pc = "idle"
  /\ \E sr \in BOOLEAN, ra \in BOOLEAN : Call(p, "upload", sr, ra, FALSE)
  /\ UNCHANGED << now, nextTick, expired, status, error, loginAt >>
  /\ UNCHANGED outside

\* ------------------------------------------------- settling of the promises
\* The record of a call keeps what the call can still read: its options
\* go once they have been used.
Done(c, res, e) ==
  [Idle EXCEPT !.op = c.op, !.pc = "done", !.gate = c.gate,
               !.issued = c.issued, !.result = res, !.err = e]

Threw(c) ==
  [Idle EXCEPT !.op = c.op, !.pc = "threw", !.gate = c.gate,
               !.issued = c.issued]

\* Mutant: the body of a 504 is read with response.json() like any other.
ReadingAllJson(c, s, t) ==
  [Idle EXCEPT !.op = c.op, !.pc = "json",
               !.skip401 = c.skip401, !.gate = c.gate,
               !.issued = c.issued, !.respStatus = s, !.respText = t]

\* The response has arrived and its body is being read: as text for a 504,
\* as JSON otherwise.
Reading(c, s, t) ==
  [Idle EXCEPT !.op = c.op, !.pc = IF ~Ok(s) /\ s = 504 THEN "text"
                                   ELSE "json",
               !.skip401 = c.skip401, !.gate = c.gate,
               !.issued = c.issued, !.respStatus = s, !.respText = t]

\* Mutant: the failure of the refresh is swallowed and the request goes out.
ResumeIgnoringFailure(c, outcome, e) ==
  IF c.pc # "awaitRefresh" THEN c
  ELSE IF c.op = "refresh"
  THEN IF outcome = "rejected"
       THEN Done([c EXCEPT !.gate = "rejected"], "rejected", e)
       ELSE Done([c EXCEPT !.gate = "resolved"], "resolved", NoErr)
  ELSE [c EXCEPT !.pc = Sent(c.op), !.gate = outcome, !.issued = TRUE]

\* The continuation of a caller awaiting refresh() once it settles: the
\* caller of refresh() gets the outcome, fetch and upload go on to their
\* own request or reject with the error of the refresh.
Resume(c, outcome, e) ==
  IF c.pc # "awaitRefresh" THEN c
  ELSE IF outcome = "rejected"
  THEN Done([c EXCEPT !.gate = "rejected"], "rejected", e)
  ELSE IF c.op = "refresh"
  THEN Done([c EXCEPT !.gate = "resolved"], "resolved", NoErr)
  ELSE [c EXCEPT !.pc = Sent(c.op), !.gate = "resolved", !.issued = TRUE]

\* The refresh promise settles: finally() clears the handle, then the
\* waiters run.
SettleRefresh(outcome, e) ==
  /\ refreshPromise' = Null
  /\ refreshExec' = "none"
  /\ proc' = [p \in DOMAIN proc |-> Resume(proc[p], outcome, e)]

\* window.fetch('/api/auth/refresh') resolves with a response of status s
\* whose body is the text t.
RefreshResponse(s, t) ==
  /\ refreshExec = "awaitFetch"
  /\ IF s = 200
     THEN /\ expired' = FALSE
          /\ SettleRefresh("resolved", NoErr)
          /\ UNCHANGED << refreshResp, refreshText >>
     ELSE /\ expired' = TRUE
          /\ refreshExec' = "awaitJson"
          /\ refreshResp' = s
          /\ refreshText' = t
          /\ UNCHANGED << refreshPromise, proc >>
  /\ UNCHANGED << now, nextTick, lastRefreshed, status, error, refreshCalls,
                  loginAt >>
  /\ UNCHANGED outside

\* response.json() of a failed refresh settles. On a text that does not
\* parse the executor throws: nothing settles the promise, and finally()
\* does not run.
RefreshBody ==
  /\ refreshExec = "awaitJson"
  /\ IF Parses(refreshText)
     THEN /\ error' = responseErrorMsg(refreshResp, JSONParse(refreshText))
          /\ SettleRefresh("rejected",
                           HttpError(refreshResp, JSONParse(refreshText)))
          /\ refreshResp' = 0
          /\ refreshText' = ""
     ELSE /\ refreshExec' = "threw"
          /\ UNCHANGED << error, refreshPromise, refreshResp, refreshText,
                          proc >>
  /\ UNCHANGED << now, nextTick, lastRefreshed, expired, status, refreshCalls,
                  loginAt >>
  /\ UNCHANGED outside

\* window.fetch('/api/auth/refresh') rejects: the executor throws.
RefreshNetError ==
  /\ refreshExec = "awaitFetch"
  /\ refreshExec' = "threw"
  /\ UNCHANGED << now, nextTick, lastRefreshed, expired, status, error,
                  refreshPromise, refreshResp, refreshText, refreshCalls,
                  loginAt, proc >>
  /\ UNCHANGED outside

\* ------------------------------------------------------ responses of fetch
\* this.status after a response of status s
SeenStatus(skip401, s) == IF skip401 /\ s = 401 THEN 200 ELSE s

\* The then() of window.fetch in fetch(): status, and for a 2xx the error
\* field, are written now; the body is read next.
FetchResponse(p, s, t) ==
  /\ proc[p].op = "fetch"
  /\ proc[p].pc = "request"
  /\ status' = SeenStatus(proc[p].skip401, s)
  /\ error' = IF Ok(s) THEN "" ELSE error
  /\ proc' = [proc EXCEPT ![p] = Reading(proc[p], s, t)]
  /\ UNCHANGED << now, nextTick, lastRefreshed, expired, refreshPromise,
                  refreshExec, refreshResp, refreshText, refreshCalls,
                  loginAt >>
  /\ UNCHANGED outside

\* response.json() or response.text() settles, the body being the text t.
FetchBody(p) ==
  /\ proc[p].op = "fetch"
  /\ proc[p].pc \in { "json", "text" }
  /\ LET c == proc[p]
         s == c.respStatus
         t == c.respText
     IN IF Ok(s)
        THEN \* resolve(response.json()): the promise follows the parse
             /\ proc' = [proc EXCEPT ![p] =
                   IF Parses(t) THEN Done(c, "resolved", NoErr)
                   ELSE Done(c, "rejected", SyntaxErr)]
             /\ UNCHANGED error
        ELSE IF c.pc = "text"
        THEN /\ proc' = [proc EXCEPT ![p] =
                   Done(c, "rejected", GatewayError(t))]
             /\ UNCHANGED error
        ELSE IF Parses(t)
        THEN /\ error' = responseErrorMsg(s, JSONParse(t))
             /\ proc' = [proc EXCEPT ![p] =
                   Done(c, "rejected", HttpError(s, JSONParse(t)))]
        ELSE \* the then() chain rejects; nothing settles the promise
             /\ proc' = [proc EXCEPT ![p] = Threw(c)]
             /\ UNCHANGED error
  /\ UNCHANGED << now, nextTick, lastRefreshed, expired, status,
                  refreshPromise, refreshExec, refreshResp, refreshText,
                  refreshCalls, loginAt >>
  /\ UNCHANGED outside

\* window.fetch rejects in fetch(): the async executor rejects, and nothing
\* settles the promise handed to the caller.
FetchNetError(p) ==
  /\ proc[p].op = "fetch"
  /\ proc[p].pc = "request"
  /\ proc' = [proc EXCEPT ![p] = Threw(proc[p])]
  /\ UNCHANGED << now, nextTick, lastRefreshed, expired, status, error,
                  refreshPromise, refreshExec, refreshResp, refreshText,
                  refreshCalls, loginAt >>
  /\ UNCHANGED outside

\* ------------------------------------------------------------ specification
Next ==
  \/ Advance
  \/ WatcherTick
  \/ \E p \in Procs : CallRefresh(p)
  \/ \E p \in Procs : CallFetch(p)
  \/ \E p \in Procs : CallUpload(p)
  \/ \E s \in Statuses, t \in Texts : RefreshResponse(s, t)
  \/ RefreshBody
  \/ RefreshNetError
  \/ \E p \in Procs, s \in Statuses, t \in Texts :
       FetchResponse(p, s, t)
  \/ \E p \in Procs : FetchBody(p)
  \/ \E p \in Procs : FetchNetError(p)

Spec == Init /\ [][Next]_vars

\* ================================================= the watchers of a process
\* Clients are constructed one after the other in one process, as a hot
\* reload does; they share the clock and the module-level sessionWatchId.
MaxClients == 3

\* The time up to which the watchers are followed.
WatchHorizon == MaxNow + MaxFine

\* The earliest tick that is due among the intervals that are set.
NextDue == CHOOSE d \in { t.due : t \in timers } :
             \A t \in timers : d <= t.due

\* Mutant: the interval of the previous client is left running.
ConstructKeepingWatcher ==
  /\ Len(clients) < MaxClients
  /\ LET id == Len(clients) + 1
     IN /\ timers' = timers \cup { [id |-> id, due |-> now + WATCH_INTERVAL] }
        /\ sessionWatchId' = id
  /\ clients' = Append(clients, FALSE)
  /\ UNCHANGED << clientVars, tabVars, uploadVars, authVars >>

\* new RESTStore(): clearInterval on the id kept in sessionWatchId, if any,
\* then setInterval, whose id replaces it; expired starts false.
Construct ==
  /\ Len(clients) < MaxClients
  /\ LET id == Len(clients) + 1
         kept == IF sessionWatchId # 0
                 THEN { t \in timers : t.id # sessionWatchId }
                 ELSE timers
     IN /\ timers' = kept \cup { [id |-> id, due |-> now + WATCH_INTERVAL] }
        /\ sessionWatchId' = id
  /\ clients' = Append(clients, FALSE)
  /\ UNCHANGED << clientVars, tabVars, uploadVars, authVars >>

\* The callback of the interval t, which belongs to the client t.id.
TimerTick(t) ==
  /\ t \in timers
  /\ now = t.due
  /\ timers' = (timers \ { t })
                 \cup { [id |-> t.id, due |-> t.due + WATCH_INTERVAL] }
  /\ clients' = [clients EXCEPT ![t.id] =
                   IF CeilingPassed THEN TRUE ELSE clients[t.id]]
  /\ UNCHANGED sessionWatchId
  /\ UNCHANGED << clientVars, tabVars, uploadVars, authVars >>

\* Time passes, by a millisecond or up to the next tick that is due; a
\* tick is taken when it is due.
WatchAdvance ==
  /\ \A t \in timers : now < t.due
  /\ \/ /\ now - T0 < MaxFine
        /\ now' = now + 1
     \/ /\ timers # {}
        /\ NextDue <= WatchHorizon
        /\ now' = NextDue
  /\ UNCHANGED << nextTick, lastRefreshed, expired, status, error,
                  refreshPromise, refreshExec, refreshResp, refreshText,
                  refreshCalls, loginAt, proc >>
  /\ UNCHANGED outside

WatchNext ==
  \/ Construct
  \/ \E t \in timers : TimerTick(t)
  \/ WatchAdvance

\* The process from the loading of the module on.
WatchSpecInit ==
  /\ now = T0
  /\ nextTick = T0 + WATCH_INTERVAL
  /\ lastRefreshed \in { Absent } \cup { Item(T0 - a) : a \in Ages }
  /\ expired = FALSE
  /\ status = 200
  /\ error = ""
  /\ refreshPromise = Null
  /\ refreshExec = "none"
  /\ refreshResp = 0
  /\ refreshText = ""
  /\ refreshCalls = 0
  /\ loginAt = lastRefreshed
  /\ proc = [p \in Procs |-> Idle]
  /\ OutsideInit

WatchSpec == WatchSpecInit /\ [][WatchNext]_vars

\* ==================================================== the tabs of an origin
\* Each tab runs its own event loop: between the freshness test of one
\* tab's refresh() and its write of the clock another tab may read or
\* write the clock.
TabHorizon == T0 + (ACCESS_TIMEOUT - 1) + MaxFine

\* refresh() in tab b, its client having no refresh in flight, up to the
\* freshness test: "if (this.getLastRefresh() + ACCESS_TIMEOUT >
\* Date.now()) return".
TabRead(b) ==
  /\ tabs[b].pc = "idle"
  /\ tabs' = [tabs EXCEPT ![b] =
        [@ EXCEPT !.pc = IF Fresh THEN "idle" ELSE "stale",
                  !.readAt = now,
                  !.last = IF Fresh THEN "fresh" ELSE "start",
                  !.seen = IF Fresh THEN @ ELSE lastRefreshed]]
  /\ UNCHANGED << now, lastRefreshed, clientRest, watchVars, uploadVars,
                  authVars >>

\* Mutant: the refresh call goes out and the clock is left as it is.
TabWriteNoClock(b) ==
  /\ tabs[b].pc = "stale"
  /\ tabs' = [tabs EXCEPT ![b] =
        [@ EXCEPT !.pc = "awaitFetch", !.calledAt = now,
                  !.calls = @ + 1]]
  /\ UNCHANGED << now, lastRefreshed, clientRest, watchVars, uploadVars,
                  authVars >>

\* refresh() in tab b goes on: updateLastRefresh(), then the executor up
\* to its await of window.fetch.
TabWrite(b) ==
  /\ tabs[b].pc = "stale"
  /\ lastRefreshed' = Item(now)
  /\ tabs' = [tabs EXCEPT ![b] =
        [@ EXCEPT !.pc = "awaitFetch", !.calledAt = now,
                  !.calls = @ + 1]]
  /\ UNCHANGED << now, clientRest, watchVars, uploadVars,
                  authVars >>

\* The refresh call of tab b ends: the promise settles and finally()
\* clears the handle, or the executor throws and the handle stays.
TabSettle(b, settles) ==
  /\ tabs[b].pc = "awaitFetch"
  /\ tabs' = [tabs EXCEPT ![b] =
        [@ EXCEPT !.pc = IF settles THEN "idle" ELSE "hung"]]
  /\ UNCHANGED << now, lastRefreshed, clientRest, watchVars, uploadVars,
                  authVars >>

\* Time passes: by a millisecond, or by a millisecond less than the access
\* window.
TabAdvance ==
  /\ \/ /\ (now - T0) % (ACCESS_TIMEOUT - 1) < MaxFine
        /\ now' = now + 1
     \/ now' = now + (ACCESS_TIMEOUT - 1)
  /\ now' <= TabHorizon
  /\ UNCHANGED << lastRefreshed, clientRest, outside >>

TabNext ==
  \/ \E b \in Tabs : TabRead(b)
  \/ \E b \in Tabs : TabWrite(b)
  \/ \E b \in Tabs, settles \in BOOLEAN : TabSettle(b, settles)
  \/ TabAdvance

TabSpecInit ==
  /\ now = T0
  /\ nextTick = T0 + WATCH_INTERVAL
  /\ lastRefreshed \in { Absent } \cup { Item(T0 - a) : a \in Ages }
  /\ expired = FALSE
  /\ status = 200
  /\ error = ""
  /\ refreshPromise = Null
  /\ refreshExec = "none"
  /\ refreshResp = 0
  /\ refreshText = ""
  /\ refreshCalls = 0
  /\ loginAt = lastRefreshed
  /\ proc = [p \in Procs |-> Idle]
  /\ OutsideInit

TabSpec == TabSpecInit /\ [][TabNext]_vars

\* ================================================================ the upload
\* The events of the XMLHttpRequest of an upload, from xhr.send(fd) on.
\* Sizes in bytes of the bodies that are sent.
Totals == { 3, 8 }

\* err.message of the event handed to the 'error' listener
Undefined == "undefined"

\* The event handed to the 'error' listener, as a rejection reason.
XhrErrorEvent == [type |-> "error"]

\* Mutant: the percentage is cut, not rounded.
PercentFloor(loaded, total) == (100 * loaded) \div total

\* Math.round((event.loaded * 100.0) / event.total): the nearest integer,
\* a half going up
Percent(loaded, total) == (200 * loaded + total) \div (2 * total)

\* upload() called with its default options
StartUpload(p) ==
  /\ CallUpload(p)
  /\ ~proc'[p].skipRefresh
  /\ proc'[p].recordActivity

\* A 'progress' event of xhr.upload: loaded of total bytes are sent.
UploadProgress(p, loaded, total) ==
  /\ proc[p].op = "upload"
  /\ proc[p].pc = "xhr"
  /\ proc[p].total \in { 0, total }
  /\ loaded > proc[p].loaded
  /\ loaded <= total
  /\ progress' = Percent(loaded, total)
  /\ proc' = [proc EXCEPT ![p] = [@ EXCEPT !.loaded = loaded,
                                           !.total = total]]
  /\ UNCHANGED << now, nextTick, lastRefreshed, expired, status, error,
                  refreshPromise, refreshExec, refreshResp, refreshText,
                  refreshCalls, loginAt >>
  /\ UNCHANGED << uploadError, watchVars, tabVars, authVars >>

\* readystatechange to HEADERS_RECEIVED and LOADING: the handler writes
\* xhr.status to this.status and does no more.
UploadHeaders(p, s) ==
  /\ proc[p].op = "upload"
  /\ proc[p].pc = "xhr"
  /\ status' = s
  /\ proc' = [proc EXCEPT ![p] = [@ EXCEPT !.pc = "headers",
                                           !.respStatus = s]]
  /\ UNCHANGED << now, nextTick, lastRefreshed, expired, error,
                  refreshPromise, refreshExec, refreshResp, refreshText,
                  refreshCalls, loginAt >>
  /\ UNCHANGED << uploadVars, watchVars, tabVars, authVars >>

\* readystatechange to DONE, xhr.responseText being t. JSON.parse throws
\* on a text that does not parse: the handler ends there and nothing
\* settles the promise.
UploadDone(p, t) ==
  /\ proc[p].op = "upload"
  /\ proc[p].pc = "headers"
  /\ status' = proc[p].respStatus
  /\ uploadError' = IF proc[p].respStatus = 200 THEN "" ELSE t
  /\ proc' = [proc EXCEPT ![p] =
        IF ~Parses(t)
        THEN [@ EXCEPT !.pc = "threw", !.respText = t]
        ELSE IF proc[p].respStatus = 200
        THEN [@ EXCEPT !.pc = "done", !.respText = t,
                       !.result = "resolved", !.value = JSONParse(t)]
        ELSE [@ EXCEPT !.pc = "done", !.respText = t,
                       !.result = "rejected", !.err = JSONParse(t)]]
  /\ UNCHANGED << now, nextTick, lastRefreshed, expired, error,
                  refreshPromise, refreshExec, refreshResp, refreshText,
                  refreshCalls, loginAt >>
  /\ UNCHANGED << progress, watchVars, tabVars, authVars >>

\* The transport fails: readystatechange to DONE with status 0 and an
\* empty text, on which JSON.parse throws, then the 'error' event, whose
\* listener rejects with the event.
UploadNetError(p) ==
  /\ proc[p].op = "upload"
  /\ proc[p].pc \in { "xhr", "headers" }
  /\ status' = 0
  /\ uploadError' = Undefined
  /\ proc' = [proc EXCEPT ![p] =
        [@ EXCEPT !.pc = "done", !.respStatus = 0,
                  !.result = "rejected", !.err = XhrErrorEvent]]
  /\ UNCHANGED << now, nextTick, lastRefreshed, expired, error,
                  refreshPromise, refreshExec, refreshResp, refreshText,
                  refreshCalls, loginAt >>
  /\ UNCHANGED << progress, watchVars, tabVars, authVars >>

UploadNext ==
  \/ \E p \in Procs : StartUpload(p)
  \/ \E s \in Statuses, t \in Texts : RefreshResponse(s, t)
  \/ RefreshBody
  \/ RefreshNetError
  \/ \E p \in Procs, total \in Totals :
       \E loaded \in 1..total : UploadProgress(p, loaded, total)
  \/ \E p \in Procs, s \in Statuses : UploadHeaders(p, s)
  \/ \E p \in Procs, t \in Texts : UploadDone(p, t)
  \/ \E p \in Procs : UploadNetError(p)

\* The client as constructed.
UploadSpec == Init /\ [][UploadNext]_vars

\* ============================================================ the AuthStore
\* An AuthStore over the client: login() and logout() called by the
\* application, logout() and authenticate() called by the autorun of its
\* constructor. A task of the event loop is followed step by step: the
\* autorun runs as soon as an observable it read has changed, the then()
\* or catch() of a settled call runs before any other task, and while such
\* a step is due nothing else happens.
AuthStatuses == { 200, 401 }
AuthTexts == { TextErr, TextBad }

\* An observable that the autorun read has changed since.
Stale ==
  \/ deps.isLoggedIn # isLoggedIn
  \/ deps.readExpired /\ deps.expired # expired
  \/ deps.readStatus /\ deps.status # status

\* The promise of call p is settled and the then() or catch() that the
\* AuthStore hung on it has not run yet.
HandlerDue(p) ==
  /\ handlers[p].who # "none"
  /\ handlers[p].ran = "no"
  /\ proc[p].pc = "done"

\* No step of a task under way is due.
Quiet ==
  /\ ~Stale
  /\ refreshExec # "resolving"
  /\ \A p \in AuthProcs : ~HandlerDue(p)

\* The handlers that were waiting for the autorun have returned.
Returned(hs) ==
  [p \in AuthProcs |->
     IF hs[p].ran = "then, autorun due" THEN [hs[p] EXCEPT !.ran = "then"]
     ELSE IF hs[p].ran = "catch, autorun due"
     THEN [hs[p] EXCEPT !.ran = "catch"]
     ELSE hs[p]]

\* this.restStore.fetch(url, options) in the method who of AuthStore, up
\* to its first suspension; p is the first call not made yet, hs the
\* handlers so far.
AuthFetch(p, who, skipRefresh, hs) ==
  /\ proc[p].pc = "idle"
  /\ \A q \in AuthProcs : q < p => proc[q].pc # "idle"
  /\ Call(p, "fetch", skipRefresh, TRUE, FALSE)
  /\ handlers' = [hs EXCEPT ![p] =
        IF who = "login"
        THEN [ who |-> who, ran |-> "no", clock0 |-> lastRefreshed,
               expired0 |-> expired, calls0 |-> refreshCalls ]
        ELSE [NoHandler EXCEPT !.who = who]]
  /\ UNCHANGED << now, nextTick, expired, status, error, loginAt >>
  /\ UNCHANGED << watchVars, tabVars, uploadVars, isLoggedIn, isLoggedOut >>

\* The application makes the first call and no other: the calls after it
\* are those of the autorun.
\* AuthStore.login(), called by the application.
Login ==
  /\ Quiet
  /\ AuthFetch(1, "login", TRUE, handlers)
  /\ UNCHANGED deps

\* AuthStore.logout(), called by the application.
Logout ==
  /\ Quiet
  /\ AuthFetch(1, "logout", FALSE, handlers)
  /\ UNCHANGED deps

\* The autorun of the constructor of AuthStore; when it has run, the
\* handler after which it ran returns.
Autorun ==
  /\ Stale
  /\ deps' = Deps(isLoggedIn, expired, status)
  /\ IF isLoggedIn /\ expired
     THEN \E p \in AuthProcs :
            AuthFetch(p, "logout", FALSE, Returned(handlers))
     ELSE IF status = 401
     THEN \E p \in AuthProcs :
            AuthFetch(p, "authenticate", FALSE, Returned(handlers))
     ELSE /\ handlers' = Returned(handlers)
          /\ UNCHANGED << clientVars, watchVars, tabVars, uploadVars,
                          isLoggedIn, isLoggedOut >>

\* The then() (the call resolved) or the catch() (it was rejected) of the
\* method that made call p: an action, at whose end the autorun runs if an
\* observable it read has changed, and only then does the handler return
\* and the promise of the method settle.
RunHandler(p) ==
  /\ ~Stale
  /\ refreshExec # "resolving"
  /\ HandlerDue(p)
  /\ UNCHANGED << now, nextTick, status, error, refreshPromise, refreshExec,
                  refreshResp, refreshText, refreshCalls, proc >>
  /\ UNCHANGED << watchVars, tabVars, uploadVars, deps >>
  /\ LET who == handlers[p].who
         ok == proc[p].result = "resolved"
     IN /\ CASE who = "login" /\ ok ->
                  \* updateLastRefresh(), resetExpired()
                  /\ isLoggedIn' = TRUE
                  /\ isLoggedOut' = FALSE
                  /\ lastRefreshed' = Item(now)
                  /\ loginAt' = Item(now)
                  /\ expired' = FALSE
             [] who = "login" /\ ~ok ->
                  UNCHANGED << isLoggedIn, isLoggedOut, lastRefreshed,
                               loginAt, expired >>
             [] who = "logout" ->
                  \* reset(), clearTimeout(), clearLastRefresh()
                  /\ isLoggedIn' = FALSE
                  /\ isLoggedOut' = TRUE
                  /\ lastRefreshed' = Absent
                  /\ expired' = FALSE
                  /\ UNCHANGED loginAt
             [] who = "authenticate" /\ ok ->
                  /\ isLoggedIn' = TRUE
                  /\ isLoggedOut' = FALSE
                  /\ UNCHANGED << lastRefreshed, loginAt, expired >>
             [] who = "authenticate" /\ ~ok ->
                  \* reset()
                  /\ isLoggedIn' = FALSE
                  /\ isLoggedOut' = FALSE
                  /\ UNCHANGED << lastRefreshed, loginAt, expired >>
        /\ handlers' = [handlers EXCEPT ![p].ran =
              IF Stale'
              THEN IF ok THEN "then, autorun due" ELSE "catch, autorun due"
              ELSE IF ok THEN "then" ELSE "catch"]

\* The refresh call is answered 200: "this.expired = false", on which the
\* autorun may run before "resolve()".
RefreshOk ==
  /\ Quiet
  /\ refreshExec = "awaitFetch"
  /\ expired' = FALSE
  /\ refreshExec' = "resolving"
  /\ UNCHANGED << now, nextTick, lastRefreshed, status, error,
                  refreshPromise, refreshResp, refreshText, refreshCalls,
                  loginAt, proc >>
  /\ UNCHANGED outside

\* "resolve()" of the refresh promise, finally() and the waiters.
RefreshResolve ==
  /\ ~Stale
  /\ refreshExec = "resolving"
  /\ SettleRefresh("resolved", NoErr)
  /\ UNCHANGED << now, nextTick, lastRefreshed, expired, status, error,
                  refreshResp, refreshText, refreshCalls, loginAt >>
  /\ UNCHANGED outside

AuthNext ==
  \/ Autorun
  \/ RefreshResolve
  \/ \E p \in AuthProcs : RunHandler(p)
  \/ Login
  \/ Logout
  \/ Quiet /\ Advance
  \/ Quiet /\ WatcherTick
  \/ RefreshOk
  \/ Quiet /\ \E s \in AuthStatuses \ { 200 }, t \in AuthTexts :
                RefreshResponse(s, t)
  \/ Quiet /\ RefreshBody
  \/ Quiet /\ RefreshNetError
  \/ Quiet /\ \E p \in AuthProcs, s \in AuthStatuses, t \in AuthTexts :
                FetchResponse(p, s, t)
  \/ Quiet /\ \E p \in AuthProcs : FetchBody(p)
  \/ Quiet /\ \E p \in AuthProcs : FetchNetError(p)

\* The application with nobody logged in, as constructed, or with a user
\* logged in by calls that have returned.
AuthSpecInit ==
  /\ now = T0
  /\ nextTick = T0 + WATCH_INTERVAL
  /\ lastRefreshed \in { Absent } \cup { Item(T0 - a) : a \in Ages }
  /\ expired = FALSE
  /\ status = 200
  /\ error = ""
  /\ refreshPromise = Null
  /\ refreshExec = "none"
  /\ refreshResp = 0
  /\ refreshText = ""
  /\ refreshCalls = 0
  /\ loginAt = lastRefreshed
  /\ proc = [p \in AuthProcs |-> Idle]
  /\ WatchInit /\ TabInit /\ UploadInit
  /\ isLoggedIn \in BOOLEAN
  /\ isLoggedOut = FALSE
  /\ deps = Deps(isLoggedIn, FALSE, 200)
  /\ handlers = [p \in AuthProcs |-> NoHandler]

AuthSpec == AuthSpecInit /\ [][AuthNext]_vars

\* ================================================================== claims
\* A step in which caller p makes its call.
CallStep(p) == proc[p].pc = "idle" /\ proc'[p].pc # "idle"

\* A step in which the watcher's callback runs.
TickStep == nextTick' # nextTick

\* A step in which the refresh promise rejects.
RefreshFails == refreshExec = "awaitJson" /\ refreshExec' = "none"

\* A step in which refresh() resolves for those awaiting it.
RefreshSucceeds == refreshExec = "awaitFetch" /\ refreshExec' = "none"

\* The refresh response has been read to its end: a 200, or another
\* status whose body was read, parsable or not.
RefreshResponseRead ==
  \/ refreshExec = "none"
  \/ refreshExec = "threw" /\ refreshResp # 0

\* ---------------------------------------------------------------------- C1
\* C1 (as claimed): the callers that invoked refresh() while an attempt was
\* in flight all get its outcome: once the refresh response has been read,
\* none of them is still waiting; they have all resolved (200) or all
\* failed with one and the same error (any other status), and the endpoint
\* was called once for them.
C1_AllCallersSettleAlike ==
  /\ RefreshResponseRead =>
       \A p \in Procs : proc[p].gate # "pending"
  /\ \A p, q \in Procs :
       (proc[p].gate = "rejected" /\ proc[q].gate = "rejected")
         => proc[p].err = proc[q].err
  /\ (\E p \in Procs : proc[p].gate = "pending") => refreshCalls = 1

\* ---------------------------------------------------------------------- C2
\* C2: a call of refresh() with no refresh in flight and
\* now - lastRefreshedAt >= ACCESS_WINDOW makes exactly one call of the
\* refresh endpoint and has written the clock to the call time while that
\* call is outstanding.
C2_StaleRefreshCallsOnce ==
  [][\A p \in Procs :
       ( /\ CallStep(p)
         /\ proc'[p].gate # "none"
         /\ refreshPromise = Null
         /\ now - getLastRefresh >= ACCESS_TIMEOUT )
       => /\ refreshCalls' = refreshCalls + 1
          /\ lastRefreshed' = Item(now)
          /\ refreshExec' = "awaitFetch"
          /\ refreshPromise' # Null
          /\ proc'[p].gate = "pending"]_vars

\* The clock was one millisecond short of the window at construction; a
\* millisecond later refresh() was called, exactly at the window.
C2_Witness ==
  /\ loginAt = Item(T0 - (ACCESS_TIMEOUT - 1))
  /\ now = T0 + 1
  /\ lastRefreshed = Item(T0 + 1)
  /\ refreshCalls = 1
  /\ refreshExec = "awaitFetch"
  /\ \E p \in Procs : proc[p].op = "refresh" /\ proc[p].gate = "pending"

\* ---------------------------------------------------------------------- C3
\* C3: a call of refresh() with no refresh in flight and
\* now - lastRefreshedAt < ACCESS_WINDOW returns successfully at once,
\* calls no endpoint and leaves the clock, the handle, expired, status and
\* error as they were.
C3_FreshRefreshIsNoOp ==
  [][\A p \in Procs :
       ( /\ CallStep(p)
         /\ proc'[p].gate # "none"
         /\ refreshPromise = Null
         /\ now - getLastRefresh < ACCESS_TIMEOUT )
       => /\ proc'[p].gate = "resolved"
          /\ proc'[p].op = "refresh" => proc'[p].result = "resolved"
          /\ refreshCalls' = refreshCalls
          /\ UNCHANGED << lastRefreshed, refreshPromise, refreshExec, expired,
                          status, error >>]_vars

\* refresh() has returned at once on a clock one millisecond short of the
\* window.
C3_Witness ==
  /\ now = T0
  /\ lastRefreshed = Item(T0 - (ACCESS_TIMEOUT - 1))
  /\ refreshCalls = 0
  /\ \E p \in Procs : /\ proc[p].op = "refresh"
                       /\ proc[p].result = "resolved"

\* ---------------------------------------------------------------------- C4
\* C4 (as claimed): whatever the outcome of the refresh network call, once
\* the attempt has run its course the in-flight handle is cleared and no
\* caller is left waiting on it.
C4_HandleAlwaysCleared ==
  refreshExec \notin { "awaitFetch", "awaitJson" }
    => /\ refreshPromise = Null
       /\ \A p \in Procs : proc[p].pc # "awaitRefresh"

\* ---------------------------------------------------------------------- C5
\* C5: a fetch or upload that calls refresh() issues its own request only
\* once that refresh has resolved; when the refresh fails the request is
\* never issued and the call fails with the very error of the refresh
\* (its message is the one left in the error field, its status that of
\* the refresh response, and every waiter gets the same error).
C5_RequestOnlyAfterRefresh ==
  /\ [](\A p \in Procs :
          (proc[p].op \in { "fetch", "upload" } /\ proc[p].gate # "none")
          => /\ proc[p].issued => proc[p].gate = "resolved"
             /\ proc[p].gate = "rejected" =>
                  /\ ~proc[p].issued
                  /\ proc[p].pc = "done"
                  /\ proc[p].result = "rejected")
  /\ [][\A p \in Procs :
          /\ ( /\ proc[p].pc = "awaitRefresh"
               /\ proc[p].op \in { "fetch", "upload" }
               /\ RefreshFails )
             => /\ proc'[p].gate = "rejected"
                /\ proc'[p].err.message = error'
                /\ proc'[p].err.status = refreshResp
                /\ \A q \in Procs :
                     proc[q].pc = "awaitRefresh"
                       => proc'[q].err = proc'[p].err
          /\ ( /\ proc[p].op \in { "fetch", "upload" }
               /\ proc[p].gate = "pending"
               /\ proc'[p].issued )
             => RefreshSucceeds]_vars

\* A fetch and an upload both waited for a refresh that failed.
C5_Witness ==
  \E p, q \in Procs :
    /\ proc[p].op = "fetch" /\ proc[q].op = "upload"
    /\ proc[p].gate = "rejected" /\ proc[q].gate = "rejected"
    /\ proc[p].result = "rejected" /\ proc[q].result = "rejected"
    /\ proc[p].err = HttpError(401, Body("X", "Y"))

\* ---------------------------------------------------------------------- C6
\* C6 (as claimed): a fetch with skip401 whose response is a 401 resolves
\* and records no error message.
C6_Skip401Resolves ==
  [][\A p \in Procs :
       ( /\ proc[p].pc = "json"
         /\ proc[p].skip401
         /\ proc[p].respStatus = 401
         /\ proc'[p].pc # "json" )
       => /\ proc'[p].result = "resolved"
          /\ error' = error]_vars

\* ---------------------------------------------------------------------- C7
\* C7 (as claimed): once the network operation of a fetch has finished,
\* by a response of any status, a transport error or a body that does not
\* parse, the promise handed to the caller is resolved or failed.
C7_FetchSettles ==
  \A p \in Procs :
    ( /\ proc[p].op = "fetch"
      /\ proc[p].pc \notin { "awaitRefresh", "request", "json", "text" } )
    => proc[p].result \in { "resolved", "rejected" }

\* ---------------------------------------------------------------------- C8
\* C8: a fetch or upload calls refresh() exactly when skipRefresh is not
\* set and recordActivity is true; a call made with skipRefresh calls no
\* refresh endpoint and leaves the clock alone, and the refresh endpoint
\* is called only in the step of a caller that called refresh().
C8_RefreshIffGated ==
  [][/\ \A p \in Procs :
          (CallStep(p) /\ proc'[p].op \in { "fetch", "upload" })
          => /\ proc'[p].gate # "none"
                  <=> (~proc'[p].skipRefresh /\ proc'[p].recordActivity)
             /\ proc'[p].skipRefresh =>
                  /\ refreshCalls' = refreshCalls
                  /\ UNCHANGED << lastRefreshed, refreshPromise >>
     /\ refreshCalls' # refreshCalls =>
          \E p \in Procs : CallStep(p) /\ proc'[p].gate = "pending"]_vars

\* A fetch with skipRefresh has its request out while the clock is absent,
\* hence stale, and the refresh endpoint was never called.
C8_Witness ==
  /\ lastRefreshed = Absent
  /\ refreshCalls = 0
  /\ now > T0
  /\ \E p \in Procs : /\ proc[p].op = "fetch"
                       /\ proc[p].pc = "request"
                       /\ proc[p].skipRefresh
                       /\ proc[p].recordActivity

\* ---------------------------------------------------------------------- C9
\* C9 (as claimed): at each tick the watcher sets the flag if and only if
\* now - lastRefreshedAt >= SESSION_CEILING, equality included.
C9_SetsAtCeiling ==
  [][TickStep =>
       IF now - getLastRefresh >= REFRESH_TIMEOUT
       THEN expired' = TRUE
       ELSE expired' = expired]_vars

\* C9 (amended): at each tick the watcher sets the flag if and only if
\* now - lastRefreshedAt > SESSION_CEILING; ticks are WATCH_INTERVAL apart
\* and none is overdue, so a crossing shows within one interval.
C9_SetsPastCeiling ==
  /\ [][TickStep =>
          /\ now = nextTick
          /\ nextTick' = nextTick + WATCH_INTERVAL
          /\ IF now - getLastRefresh > REFRESH_TIMEOUT
             THEN expired' = TRUE
             ELSE expired' = expired]_vars
  /\ [](now <= nextTick /\ nextTick <= now + WATCH_INTERVAL)

\* The first tick fell exactly on the ceiling; the second tick has set the
\* flag, no refresh having been attempted.
C9_Witness ==
  /\ lastRefreshed = Item(T0 - (REFRESH_TIMEOUT - WATCH_INTERVAL))
  /\ now = T0 + 2 * WATCH_INTERVAL
  /\ nextTick = T0 + 3 * WATCH_INTERVAL
  /\ refreshCalls = 0
  /\ expired

\* --------------------------------------------------------------------- C10
\* C10 (as claimed): with the clock set at login time L, every tick later
\* than L + SESSION_CEILING sets the flag, so that it is set no later than
\* L + SESSION_CEILING + one interval whatever was fetched in between.
C10_CeilingFromLogin ==
  [][( /\ TickStep
       /\ loginAt # Absent
       /\ now > loginAt[1] + REFRESH_TIMEOUT )
     => expired' = TRUE]_vars

\* C10 (amended): the ceiling runs from the last write of the clock, not
\* from the login: every refresh attempt writes the clock to its call
\* time, a tick within SESSION_CEILING of that write leaves the flag
\* alone, and a tick later than that sets it.
C10_CeilingFromLastWrite ==
  [][/\ refreshCalls' # refreshCalls => lastRefreshed' = Item(now)
     /\ (TickStep /\ now <= getLastRefresh + REFRESH_TIMEOUT)
          => expired' = expired
     /\ (TickStep /\ now > getLastRefresh + REFRESH_TIMEOUT)
          => expired' = TRUE]_vars

\* The login's ceiling passed at the first tick; a refresh a millisecond
\* after construction moved the clock, and two ticks later the flag is
\* still down.
C10_Witness ==
  /\ loginAt = Item(T0 - (REFRESH_TIMEOUT - WATCH_INTERVAL))
  /\ lastRefreshed = Item(T0 + 1)
  /\ refreshCalls = 1
  /\ now = T0 + 2 * WATCH_INTERVAL
  /\ nextTick = T0 + 3 * WATCH_INTERVAL
  /\ ~expired

\* --------------------------------------------------------------------- C12
\* C12 (as claimed): when the refresh network call settles, a 200 clears
\* the expiry flag and resolves the refresh with no value; any other
\* status sets the flag and, once its body has been read, leaves in the
\* error field the message derived from that body and fails the refresh
\* with an error carrying that message, the status and the body.
C12_RefreshOutcome ==
  [][/\ RefreshSucceeds =>
          /\ expired' = FALSE
          /\ \A p \in Procs :
               (proc[p].pc = "awaitRefresh" /\ proc[p].op = "refresh")
                 => /\ proc'[p].result = "resolved"
                    /\ proc'[p].err = NoErr
     /\ (refreshExec = "awaitFetch" /\ refreshExec' = "awaitJson")
          => expired' = TRUE
     /\ (refreshExec = "awaitJson" /\ refreshExec' # "awaitJson")
          => /\ expired' = TRUE
             /\ refreshExec' = "none"
             /\ error' = responseErrorMsg(refreshResp,
                                          JSONParse(refreshText))
             /\ \A p \in Procs :
                  (proc[p].pc = "awaitRefresh" /\ proc[p].op = "refresh")
                    => /\ proc'[p].result = "rejected"
                       /\ proc'[p].err.message = error'
                       /\ proc'[p].err.status = refreshResp]_vars

\* --------------------------------------------------------------------- C18
\* C18 (as claimed): once the response of a fetch has been processed the
\* shared fields describe it: when the response arrives status becomes its
\* code (200 for a tolerated 401) and, for a 2xx, error becomes empty; when
\* a response that is not a 2xx, a 504 included, has failed the call, error
\* is the message of that failure, whatever an earlier call left there.
C18_FieldsDescribeResponse ==
  [][\A p \in Procs :
       /\ (proc[p].pc = "request" /\ proc'[p].pc \in { "json", "text" })
            => /\ status' = IF proc[p].skip401 /\ proc'[p].respStatus = 401
                            THEN 200 ELSE proc'[p].respStatus
               /\ Ok(proc'[p].respStatus) => error' = ""
       /\ ( /\ proc[p].pc \in { "json", "text" }
            /\ ~Ok(proc[p].respStatus)
            /\ proc'[p].result = "rejected" )
            => error' = proc'[p].err.message]_vars

\* --------------------------------------------------------------------- C19
\* The message the priority order gives for status s and body text t.
C19_Expected(s, t) ==
  CASE t = TextBoth  -> "X"
    [] t = TextErr   -> "Y"
    [] t = TextEmpty -> ToString(s) \o " - {}"

\* C19: for a response that is neither a 2xx nor a 504 and whose body
\* parses, in fetch and in a failed refresh, the message is
\* body.error_description if present, else body.error if present, else the
\* status code followed by the serialized body; the call fails with an
\* error carrying that message, the status of the response and the parsed
\* body, and the message is the one left in the error field.
C19_MessagePriority ==
  [][/\ \A p \in Procs :
          ( /\ proc[p].pc = "json"
            /\ ~Ok(proc[p].respStatus)
            /\ Parses(proc[p].respText)
            /\ proc'[p].pc # "json" )
          => /\ proc'[p].result = "rejected"
             /\ proc'[p].err.message
                  = C19_Expected(proc[p].respStatus, proc[p].respText)
             /\ proc'[p].err.status = proc[p].respStatus
             /\ proc'[p].err.body = JSONParse(proc[p].respText)
             /\ error' = proc'[p].err.message
     /\ (refreshExec = "awaitJson" /\ Parses(refreshText)
           /\ refreshExec' # "awaitJson")
          => /\ error' = C19_Expected(refreshResp, refreshText)
             /\ \A p \in Procs :
                  proc[p].pc = "awaitRefresh"
                    => /\ proc'[p].result = "rejected"
                       /\ proc'[p].err.message = error'
                       /\ proc'[p].err.status = refreshResp
                       /\ proc'[p].err.body = JSONParse(refreshText)]_vars

\* A refresh and a fetch have both failed: the refresh on a body holding
\* both fields, the fetch, made with skipRefresh, on the body "{ }".
C19_Witness ==
  \E p, q \in Procs :
    /\ proc[p].op = "refresh"
    /\ proc[p].err = Err("X", 401, Body("X", "Y"))
    /\ proc[q].op = "fetch"
    /\ proc[q].gate = "none"
    /\ proc[q].err = Err("401 - {}", 401, Body("", ""))
    /\ error = "401 - {}"

\* --------------------------------------------------------------------- C20
\* C20: the body of a 504 is read as text and never parsed, and the fetch
\* fails with an error whose message is that very text, be it valid JSON
\* or not.
C20_GatewayTimeoutRawText ==
  [][\A p \in Procs :
       /\ (proc[p].pc = "request" /\ proc'[p].respStatus = 504)
            => proc'[p].pc = "text"
       /\ (proc[p].pc \in { "json", "text" } /\ proc[p].respStatus = 504
             /\ proc'[p].pc # proc[p].pc)
            => /\ proc'[p].pc = "done"
               /\ proc'[p].result = "rejected"
               /\ proc'[p].err.message = proc[p].respText]_vars

\* Two fetches have failed on a 504, one with a body that is no JSON and
\* one with a body that is.
C20_Witness ==
  \E p, q \in Procs :
    /\ proc[p].op = "fetch" /\ proc[q].op = "fetch"
    /\ proc[p].result = "rejected" /\ proc[q].result = "rejected"
    /\ proc[p].err.message = TextBad
    /\ proc[q].err.message = TextBoth

\* --------------------------------------------------------------------- C11
\* C11: after any sequence of constructions at most one interval is set,
\* the one of the client constructed last, whose id sessionWatchId holds;
\* a construction leaves set no interval but its own, and a tick changes
\* the expiry flag of no client but the last one.
C11_OneWatcher ==
  /\ [](/\ Cardinality(timers) <= 1
        /\ \A t \in timers : t.id = Len(clients) /\ t.id = sessionWatchId
        /\ clients # << >> => timers # {})
  /\ [][/\ Len(clients') > Len(clients)
             => timers' = { [id |-> Len(clients'),
                             due |-> now + WATCH_INTERVAL] }
        /\ \A i \in DOMAIN clients :
             clients'[i] # clients[i] => i = Len(clients)]_vars

\* Three clients were constructed within the first interval; a tick of the
\* interval of the last one has raised its flag, the clock being absent,
\* and no flag of the others.
C11_Witness ==
  /\ Len(clients) = MaxClients
  /\ lastRefreshed = Absent
  /\ clients[MaxClients]
  /\ \A i \in 1..(MaxClients - 1) : ~clients[i]
  /\ Cardinality(timers) = 1
  /\ now > T0 + WATCH_INTERVAL

\* --------------------------------------------------------------------- C13
\* The step in which tab b runs the freshness test of its refresh().
TabReadStep(b) == tabs[b].pc = "idle" /\ tabs'[b].last # "none"
                                       /\ tabs'[b] # tabs[b]

\* C13: a refresh call goes out together with the write of the clock to
\* the time of the call; a tab whose refresh() reads the clock while the
\* refresh call of another tab is still out, less than ACCESS_WINDOW after
\* that call went out, returns at once and makes no call; and when the
\* refresh call of a tab goes out less than ACCESS_WINDOW after that of
\* another tab, it had read the clock before the other wrote it: what it
\* read is older than the other's write.
C13_SecondTabSkips ==
  [][\A b \in Tabs :
       /\ tabs'[b].calls # tabs[b].calls
            => /\ tabs'[b].calls = tabs[b].calls + 1
               /\ lastRefreshed' = Item(now)
               /\ \A a \in Tabs \ { b } :
                    ( /\ tabs[a].calls > 0
                      /\ now - tabs[a].calledAt < ACCESS_TIMEOUT )
                    => /\ tabs[b].readAt <= tabs[a].calledAt
                       /\ tabs[b].seen # Absent
                            => tabs[b].seen[1] < tabs[a].calledAt
       /\ ( /\ TabReadStep(b)
            /\ \E a \in Tabs \ { b } :
                 /\ tabs[a].pc = "awaitFetch"
                 /\ now - tabs[a].calledAt < ACCESS_TIMEOUT )
          => /\ tabs'[b].pc = "idle"
             /\ tabs'[b].last = "fresh"
             /\ tabs'[b].calls = tabs[b].calls
             /\ lastRefreshed' = lastRefreshed]_vars

\* The refresh call of one tab went out at T0 and is still out; another
\* tab has called refresh() one millisecond before the window closes and
\* has made no call.
C13_Witness ==
  \E a, b \in Tabs :
    /\ tabs[a].pc = "awaitFetch"
    /\ tabs[a].calledAt = T0
    /\ lastRefreshed = Item(T0)
    /\ now = T0 + ACCESS_TIMEOUT - 1
    /\ tabs[b].last = "fresh"
    /\ tabs[b].readAt = T0 + ACCESS_TIMEOUT - 1
    /\ tabs[b].calls = 0

\* Both tabs read the stale clock before either wrote it: two refresh
\* calls are out.
C13_WitnessRace ==
  \E a, b \in Tabs :
    /\ a # b
    /\ tabs[a].pc = "awaitFetch" /\ tabs[b].pc = "awaitFetch"
    /\ tabs[a].seen = tabs[b].seen

\* --------------------------------------------------------------------- C16
\* The step in which the transport of the upload p completes with a
\* response (readyState 4 after the headers).
UploadDoneStep(p) ==
  /\ proc[p].op = "upload"
  /\ proc[p].pc = "headers"
  /\ proc'[p].pc \in { "done", "threw" }
  /\ proc'[p].respStatus # 0

\* The raw response text as a rejection reason.
Raw(t) == [raw |-> t]

\* C16 (as claimed): whenever the transport of an upload completes, its
\* promise settles: on status 200 it resolves with the parsed response
\* text and uploadError is cleared; on any other status uploadError is the
\* raw response text and the promise fails with the parsed body, or with
\* the raw body when the text does not parse.
C16_UploadSettles ==
  [][\A p \in Procs :
       UploadDoneStep(p)
       => LET t == proc'[p].respText
          IN IF proc[p].respStatus = 200
             THEN /\ uploadError' = ""
                  /\ proc'[p].result = "resolved"
                  /\ proc'[p].value = JSONParse(t)
             ELSE /\ uploadError' = t
                  /\ proc'[p].result = "rejected"
                  /\ proc'[p].err = IF Parses(t) THEN JSONParse(t)
                                    ELSE Raw(t)]_vars

\* --------------------------------------------------------------------- C17
\* Upload p is the only upload made on the client.
OnlyUpload(p) == \A q \in Procs \ { p } : proc[q].op # "upload"

\* n is x / y rounded to the nearest integer, a half going up
Rounds(n, x, y) == 2 * n * y - y <= 2 * x /\ 2 * x < 2 * n * y + y

\* C17: every progress event leaves in progress the percentage
\* loaded * 100 / total rounded to the nearest integer, which lies in
\* 0..100; and when the only upload of the client, whose last progress
\* event had loaded = total, completes on a 200 with a text that parses,
\* its promise resolves with the parsed text while progress is 100.
C17_ProgressAtResolve ==
  /\ [](progress \in 0..100)
  /\ [][\A p \in Procs :
          /\ proc'[p].loaded # proc[p].loaded
               => /\ Rounds(progress', 100 * proc'[p].loaded,
                            proc'[p].total)
                  /\ proc[p].total \in { 0, proc'[p].total }
          /\ ( /\ UploadDoneStep(p)
               /\ OnlyUpload(p)
               /\ proc[p].loaded = proc[p].total
               /\ proc[p].total > 0
               /\ proc[p].respStatus = 200
               /\ Parses(proc'[p].respText) )
             => /\ progress = 100
                /\ progress' = 100
                /\ proc'[p].result = "resolved"
                /\ proc'[p].value = JSONParse(proc'[p].respText)]_vars

\* The only upload of the client has resolved with the parsed body after
\* its eight bytes were sent, and progress is 100.
C17_Witness ==
  \E p \in Procs :
    /\ OnlyUpload(p)
    /\ proc[p].op = "upload"
    /\ proc[p].loaded = 8 /\ proc[p].total = 8
    /\ proc[p].result = "resolved"
    /\ proc[p].value = Body("X", "Y")
    /\ status = 200
    /\ progress = 100

\* A progress event has told one byte of eight: 12.5 percent, shown as 13.
C17_WitnessHalf ==
  \E p \in Procs :
    /\ proc[p].loaded = 1 /\ proc[p].total = 8
    /\ progress = 13

\* --------------------------------------------------------------------- C14
\* The step in which the promise of the method of AuthStore that made call
\* p settles: its handler returns.
Settles(p) ==
  /\ handlers[p].ran \notin { "then", "catch" }
  /\ handlers'[p].ran \in { "then", "catch" }

\* C14 (as claimed): whenever logout() settles, after its then() or after
\* its catch(), the clock is absent from localStorage, expired is false,
\* isLoggedIn is false and isLoggedOut is true.
C14_LogoutCleansUp ==
  [][\A p \in AuthProcs :
       (handlers[p].who = "logout" /\ Settles(p))
       => /\ lastRefreshed' = Absent
          /\ expired' = FALSE
          /\ isLoggedIn' = FALSE
          /\ isLoggedOut' = TRUE]_vars

\* --------------------------------------------------------------------- C15
\* C15 (as claimed): when login() settles before any tick of the watcher,
\* then after a success the clock is the time of completion and expired
\* is false, after a failure the clock and expired are what login() found
\* when it was called, and in both cases no refresh call was made since.
C15_LoginAndTheClock ==
  [][\A p \in AuthProcs :
       ( /\ handlers[p].who = "login"
         /\ Settles(p)
         /\ nextTick = T0 + WATCH_INTERVAL )
       => /\ refreshCalls' = handlers[p].calls0
          /\ IF handlers'[p].ran = "then"
             THEN /\ lastRefreshed' = Item(now)
                  /\ expired' = FALSE
             ELSE /\ lastRefreshed' = handlers[p].clock0
                  /\ expired' = handlers[p].expired0]_vars


\* --------------------------------------------------------------------- C21
\* The last refresh attempt failed: its promise was rejected for those
\* awaiting it, or its executor threw.
RefreshFailed ==
  \/ refreshExec = "threw"
  \/ /\ refreshExec = "none"
     /\ \E q \in Procs : proc[q].gate = "rejected"

\* A step in which the refresh attempt in flight fails or goes on failing.
FailureStep ==
  /\ refreshExec \in { "awaitFetch", "awaitJson" }
  /\ refreshExec' \in { "awaitJson", "threw" } \/ RefreshFails

\* C21 (as claimed): a failed refresh does not roll the clock back, and
\* while the clock it wrote is fresh every refresh() after the failure is
\* a no-op that resolves with no network call, expired staying true, and
\* every gated fetch or upload sends its request with no new attempt.
C21_FailedRefreshKeepsClock ==
  [][/\ FailureStep => lastRefreshed' = lastRefreshed
     /\ \A p \in Procs :
          ( /\ CallStep(p)
            /\ proc'[p].gate # "none"
            /\ RefreshFailed
            /\ Fresh )
          => /\ proc'[p].gate = "resolved"
             /\ proc'[p].op = "refresh" => proc'[p].result = "resolved"
             /\ proc'[p].op # "refresh" => proc'[p].issued
             /\ refreshCalls' = refreshCalls
             /\ lastRefreshed' = lastRefreshed
             /\ expired /\ expired']_vars


\* --------------------------------------------------------------------- C22
\* logout() has settled.
LoggedOut ==
  \E p \in AuthProcs : /\ handlers[p].who = "logout"
                       /\ handlers[p].ran \in { "then", "catch" }

\* C22: an absent clock reads as 0. A call of refresh() that finds the
\* clock absent and no refresh in flight starts an attempt: it writes the
\* clock and calls the endpoint. A watcher tick that finds the clock
\* absent sets expired. After a logout, while the clock is still absent
\* and expired still false, the next tick is at most one polling interval
\* away, and it sets expired.
C22_AbsentClockReadsZero ==
  [][/\ \A p \in AuthProcs :
          ( /\ CallStep(p)
            /\ proc'[p].gate # "none"
            /\ lastRefreshed = Absent
            /\ refreshPromise = Null )
          => /\ refreshCalls' = refreshCalls + 1
             /\ lastRefreshed' = Item(now)
             /\ proc'[p].gate = "pending"
     /\ (TickStep /\ lastRefreshed = Absent) => expired'
     /\ (LoggedOut /\ lastRefreshed = Absent /\ ~expired)
          => /\ now <= nextTick
             /\ nextTick <= now + WATCH_INTERVAL
             /\ now' > now => now' <= nextTick]_vars

\* The clock was absent at construction; logout() called refresh(), which
\* made a refresh call; logout() settled, leaving the clock absent and
\* expired false, and the tick after it has set expired.
C22_Witness ==
  /\ loginAt = Absent
  /\ refreshCalls >= 1
  /\ LoggedOut
  /\ ~isLoggedIn
  /\ lastRefreshed = Absent
  /\ expired
  /\ nextTick > T0 + WATCH_INTERVAL


\* --------------------------------------------------------------------- C23
\* A step in which the autorun of AuthStore runs.
AutorunStep == deps' # deps

\* A step in which the autorun makes call p, and it is a call of
\* logout().
StartsLogout(p) ==
  /\ AutorunStep
  /\ handlers[p].who = "none"
  /\ handlers'[p].who = "logout"

\* Call p was made by the autorun: the application makes no call but the
\* first.
ByAutorun(p) == p > 1

\* Call p can settle no more: its own promise, or the refresh promise it
\* awaits, is one that nothing will settle.
Stuck(p) ==
  \/ proc[p].pc = "threw"
  \/ proc[p].pc = "awaitRefresh" /\ refreshExec = "threw"

\* C23 (as claimed): when expired becomes true while isLoggedIn is true
\* the autorun runs and starts logout(); a logout() that it started is
\* never left unable to settle, and it settles with isLoggedIn false; the
\* autorun starts logout() only while isLoggedIn is true, a watcher tick
\* while isLoggedIn is false does not make the autorun run, and once a
\* logout() has settled the autorun starts no further one unless the
\* application has logged in.
C23_ExpiryLogsOutOnce ==
  [][/\ (~expired /\ expired' /\ isLoggedIn') => Stale'
     /\ (AutorunStep /\ isLoggedIn /\ expired)
          => \E p \in AuthProcs : StartsLogout(p)
     /\ \A p \in AuthProcs :
          /\ (ByAutorun(p) /\ handlers'[p].who = "logout") => ~Stuck(p)'
          /\ (handlers[p].who = "logout" /\ Settles(p)) => ~isLoggedIn'
          /\ StartsLogout(p) => isLoggedIn /\ expired
     /\ (TickStep /\ ~isLoggedIn) => ~Stale'
     /\ \A p \in AuthProcs :
          (StartsLogout(p) /\ handlers[1].who # "login") => ~LoggedOut]_vars

====
